---------------------------- MODULE Spec2Model ----------------------------
(***************************************************************************)
(* A model of snntorch/energy_estimation/model_statistics.py: the          *)
(* ModelStatistics aggregator (its constructor's accumulation pass and its *)
(* __repr__) and the static unit helpers to_readable / format_output_num.  *)
(*                                                                         *)
(* Python lists are objects: the constructor stores REFERENCES to the      *)
(* caller's summary_list, device_profiles and to the first record's        *)
(* total_energy_contributions list.  The model keeps the energy lists in a *)
(* heap (address -> list) so that aliasing is visible; summary_list and    *)
(* device_profiles are the caller's objects themselves.                    *)
(***************************************************************************)
EXTENDS Integers, Sequences, FiniteSets, TLC

VARIABLES
    summary_list,     \* the caller's list of LayerInfo records
    device_profiles,  \* the caller's list of DeviceProfile objects
    heap,             \* address -> list of float: the energy-contribution lists
    formatting,       \* the FormattingOptions collaborator's layer-name column
    calls,            \* constructor calls the caller has still to make
    pc,               \* "idle", or "loop" while a constructor runs its for loop
    idx,              \* position of the running constructor's for loop (1-based)
    snaps,            \* the ModelStatistics objects, in order of construction
    err,              \* the exception the last constructor call raised, or "none"
    out,              \* the value the last __repr__ call returned
    num,              \* argument num of the static helper under test
    units,            \* argument units of the static helper under test
    readable,         \* last value returned by to_readable
    formatted         \* last value returned by format_output_num

vars == <<summary_list, device_profiles, heap, formatting, calls, pc, idx,
          snaps, err, out, num, units, readable, formatted>>

statsVars == <<summary_list, device_profiles, heap, formatting, calls, pc, idx,
               snaps, err, out>>
unitVars == <<num, units, readable, formatted>>

-----------------------------------------------------------------------------
(* Bounds of the model.                                                    *)
MaxLayers == 2
MaxProfiles == 2
MaxSnapshots == 2
MaxRebinds == 1

-----------------------------------------------------------------------------
(* Inputs.                                                                 *)

\* <<num_params, trainable_params, macs, output_bytes, param_bytes>> of a leaf
\* record; negative parameter counts are the upstream anomaly the code clamps.
LeafCases ==
    { <<-1, -1, 3, 5, 0>>, <<0, 0, 1, 5, 0>>, <<2, 1, 3, 4, 8>>, <<2, -1, 0, 5, 8>> }

\* <<leftover_params(), leftover_trainable_params()>> of a container record.
ContainerCases == { <<-5, -5>>, <<0, 0>>, <<1, 1>>, <<3, -5>> }

LeafLayers ==
    { [is_leaf_layer |-> TRUE, is_recursive |-> r,
       num_params |-> c[1], trainable_params |-> c[2], macs |-> c[3],
       output_bytes |-> c[4], param_bytes |-> c[5],
       leftover |-> 0, leftover_trainable |-> 0] :
         r \in BOOLEAN, c \in LeafCases }

\* A container's own counters are not read by the pass; they are non-zero here
\* so that reading them by mistake would show.
ContainerLayers ==
    { [is_leaf_layer |-> FALSE, is_recursive |-> r,
       num_params |-> 2, trainable_params |-> 1, macs |-> 3,
       output_bytes |-> 5, param_bytes |-> 8,
       leftover |-> c[1], leftover_trainable |-> c[2]] :
         r \in BOOLEAN, c \in ContainerCases }

LayerPool == LeafLayers \cup ContainerLayers

SmallPool ==
    { l \in LayerPool :
        /\ ~l.is_recursive
        /\ \/ l.is_leaf_layer /\ l.num_params = 2 /\ l.trainable_params = 1
           \/ ~l.is_leaf_layer /\ l.leftover = 1 }

\* Record k of the list owns the energy list at heap address k.
WithEnergies(layers) ==
    [k \in 1..Len(layers) |->
        [is_leaf_layer |-> layers[k].is_leaf_layer,
         is_recursive |-> layers[k].is_recursive,
         num_params |-> layers[k].num_params,
         trainable_params |-> layers[k].trainable_params,
         macs |-> layers[k].macs,
         output_bytes |-> layers[k].output_bytes,
         param_bytes |-> layers[k].param_bytes,
         leftover |-> layers[k].leftover,
         leftover_trainable |-> layers[k].leftover_trainable,
         total_energy_contributions |-> k]]

ListsOver(pool) == UNION { [1..n -> pool] : n \in 0..MaxLayers }

\* The energy of device k as computed upstream: one distinct value per index.
EnergyOf(k) == 10 * k

\* The first record carries nE totals; every other record carries one value
\* of its own, which the aggregator must not add.
InitialHeap(n, nE) ==
    [a \in 1..n |-> IF a = 1 THEN [k \in 1..nE |-> EnergyOf(k)] ELSE <<7>>]

-----------------------------------------------------------------------------
(* LayerInfo.leftover_params() / leftover_trainable_params(): computed by  *)
(* layer_info.py from the record's children; here the value it returns.    *)
leftover_params(layer_info) == layer_info.leftover
leftover_trainable_params(layer_info) == layer_info.leftover_trainable

max(a, b) == IF a >= b THEN a ELSE b

-----------------------------------------------------------------------------
(* ModelStatistics.__init__                                                *)

\* Lines 28-33: the fields before the pass; total_energies is the first
\* record's list itself (a reference), not a copy and not a sum.
NewStatistics(layers) ==
    [total_mult_adds |-> 0,
     total_params |-> 0, trainable_params |-> 0,
     total_param_bytes |-> 0, total_output_bytes |-> 0,
     total_energy |-> 0,
     total_energies |-> layers[1].total_energy_contributions]

\* LeafCompute with the wrong comparison (num_params >= 0).
LeafComputeNonNegative(self, layer_info) ==
    [self EXCEPT
        !.total_mult_adds = @ + layer_info.macs,
        !.total_output_bytes =
            IF layer_info.num_params >= 0 THEN @ + layer_info.output_bytes * 2 ELSE @]

\* Lines 40-43: what every leaf record adds, recursive or not.
LeafCompute(self, layer_info) ==
    [self EXCEPT
        !.total_mult_adds = @ + layer_info.macs,
        !.total_output_bytes =
            IF layer_info.num_params > 0 THEN @ + layer_info.output_bytes * 2 ELSE @]

\* LeafParams without the max() clamps.
LeafParamsNoClamp(self, layer_info) ==
    IF layer_info.is_recursive
    THEN self
    ELSE [self EXCEPT
            !.total_params = @ + layer_info.num_params,
            !.total_param_bytes = @ + layer_info.param_bytes,
            !.trainable_params = @ + layer_info.trainable_params]

\* Lines 44-48: parameter accounting of a leaf record.
LeafParams(self, layer_info) ==
    IF layer_info.is_recursive
    THEN self
    ELSE [self EXCEPT
            !.total_params = @ + max(layer_info.num_params, 0),
            !.total_param_bytes = @ + layer_info.param_bytes,
            !.trainable_params = @ + max(layer_info.trainable_params, 0)]

\* ContainerParams without the max() clamps.
ContainerParamsNoClamp(self, layer_info) ==
    IF layer_info.is_recursive
    THEN self
    ELSE [self EXCEPT
            !.total_params = @ + leftover_params(layer_info),
            !.trainable_params = @ + leftover_trainable_params(layer_info)]

\* Lines 50-55: a container record.
ContainerParams(self, layer_info) ==
    IF layer_info.is_recursive
    THEN self
    ELSE [self EXCEPT
            !.total_params = @ + max(leftover_params(layer_info), 0),
            !.trainable_params = @ + max(leftover_trainable_params(layer_info), 0)]

\* Accumulate with the recursive test made first, for every kind of record.
AccumulateSkipRecursive(self, layer_info) ==
    IF layer_info.is_recursive
    THEN self
    ELSE IF layer_info.is_leaf_layer
         THEN LeafParams(LeafCompute(self, layer_info), layer_info)
         ELSE ContainerParams(self, layer_info)

\* Lines 39-55: the body of the for loop.
Accumulate(self, layer_info) ==
    IF layer_info.is_leaf_layer
    THEN LeafParams(LeafCompute(self, layer_info), layer_info)
    ELSE ContainerParams(self, layer_info)

\* Line 33: summary_list[0] raises IndexError on an empty list.
SeedRaises(layers) == Len(layers) = 0

\* Construct with an empty list tolerated: the seed defaults to no list (0).
ConstructEmptyTolerated ==
    /\ pc = "idle"
    /\ calls > 0
    /\ calls' = calls - 1
    /\ err' = "none"
    /\ snaps' = Append(snaps,
                  IF summary_list = <<>>
                  THEN [total_mult_adds |-> 0, total_params |-> 0,
                        trainable_params |-> 0, total_param_bytes |-> 0,
                        total_output_bytes |-> 0, total_energy |-> 0,
                        total_energies |-> 0]
                  ELSE NewStatistics(summary_list))
    /\ pc' = "loop"
    /\ idx' = 1
    /\ UNCHANGED <<summary_list, device_profiles, heap, formatting, out>>
    /\ UNCHANGED unitVars

\* Lines 24-33.  The object exists only if __init__ returns.
Construct ==
    /\ pc = "idle"
    /\ calls > 0
    /\ calls' = calls - 1
    /\ IF SeedRaises(summary_list)
       THEN /\ err' = "IndexError"
            /\ UNCHANGED <<snaps, pc, idx>>
       ELSE /\ err' = "none"
            /\ snaps' = Append(snaps, NewStatistics(summary_list))
            /\ pc' = "loop"
            /\ idx' = 1
    /\ UNCHANGED <<summary_list, device_profiles, heap, formatting, out>>
    /\ UNCHANGED unitVars

\* Lines 38-55: one iteration of the for loop.
ForLayer ==
    /\ pc = "loop"
    /\ idx <= Len(summary_list)
    /\ snaps' = [snaps EXCEPT ![Len(snaps)] = Accumulate(@, summary_list[idx])]
    /\ idx' = idx + 1
    /\ UNCHANGED <<summary_list, device_profiles, heap, formatting, calls, pc,
                   err, out>>
    /\ UNCHANGED unitVars

\* Line 56: the loop is over; the formatter sizes its layer-name column.
SetLayerNameWidth ==
    /\ pc = "loop"
    /\ idx > Len(summary_list)
    /\ formatting' = "fitted"
    /\ pc' = "idle"
    /\ UNCHANGED <<summary_list, device_profiles, heap, calls, idx, snaps, err,
                   out>>
    /\ UNCHANGED unitVars

\* The objects whose constructor has returned.
Built == 1..(IF pc = "idle" THEN Len(snaps) ELSE Len(snaps) - 1)

-----------------------------------------------------------------------------
(* ModelStatistics.__repr__                                                *)

\* str(device_profile)
DeviceStr(device_profile) == "device" \o ToString(device_profile)

Min(a, b) == IF a <= b THEN a ELSE b

\* zip(a, b) stops at the shorter list.
Zip(a, b) == [k \in 1..Min(Len(a), Len(b)) |-> <<a[k], b[k]>>]

\* Lines 73-75.
EnergyLines(profiles, energies) ==
    [k \in 1..Len(Zip(profiles, energies)) |->
        [line |-> "energy",
         device |-> DeviceStr(Zip(profiles, energies)[k][1]),
         value |-> Zip(profiles, energies)[k][2]]]

\* Lines 77-84: divider, header row, divider, layer rows, divider, energy lines.
\* (The three texts of lines 61-69 are computed and not used in the report.)
Report(self) ==
    << [line |-> "divider"], [line |-> "header"], [line |-> "divider"],
       [line |-> "layers", total_params |-> self.total_params],
       [line |-> "divider"] >>
    \o EnergyLines(device_profiles, heap[self.total_energies])

Repr ==
    /\ \E k \in Built : out' = Report(snaps[k])
    /\ UNCHANGED <<summary_list, device_profiles, heap, formatting, calls, pc,
                   idx, snaps, err>>
    /\ UNCHANGED unitVars

-----------------------------------------------------------------------------
(* The static unit helpers.                                                *)
(*                                                                         *)
(* The arguments reach 1e12 and beyond, so an integer is kept as its       *)
(* base-1000 digits, least significant first, the last digit carrying the  *)
(* sign: <<d1, ..., dn>> is d1 + 1000*d2 + ... + 1000^(n-1)*dn with        *)
(* 0 <= di < 1000 for i < n.  num / 1000^j is then exact: its whole part   *)
(* is the digits above position j and its fractional part the j digits     *)
(* below.  For the arguments drawn here (|num| < 2^53) Python's float      *)
(* division yields a whole float exactly when this quotient is whole.      *)

\* enums.py: the members of Units.
AUTO == "Units.AUTO"
KILOBYTES == "Units.KILOBYTES"
MEGABYTES == "Units.MEGABYTES"
GIGABYTES == "Units.GIGABYTES"
TERABYTES == "Units.TERABYTES"
NONE == "Units.NONE"
Units == {AUTO, KILOBYTES, MEGABYTES, GIGABYTES, TERABYTES, NONE}

\* The text an f-string puts for a member: the label of the unit.
UnitStr(unit) ==
    CASE unit = AUTO -> "AUTO"
      [] unit = KILOBYTES -> "KILOBYTES"
      [] unit = MEGABYTES -> "MEGABYTES"
      [] unit = GIGABYTES -> "GIGABYTES"
      [] unit = TERABYTES -> "TERABYTES"
      [] unit = NONE -> "NONE"

\* FormattingOptions.py: CONVERSION_FACTORS, each factor 1000^j given as j
\* (1e12, 1e9 and 1e6 as in to_readable's own thresholds, 1e3, and 1 for NONE).
CONVERSION_FACTORS ==
    [u \in Units \ {AUTO} |->
        CASE u = TERABYTES -> 4
          [] u = GIGABYTES -> 3
          [] u = MEGABYTES -> 2
          [] u = KILOBYTES -> 1
          [] u = NONE -> 0]

\* The literal 1000^j with as many digits as n.
Power(n, j) == [i \in 1..Len(n) |-> IF i = j + 1 THEN 1 ELSE 0]

\* a >= b on digit sequences of equal length.
GreaterEq(a, b) ==
    \/ a = b
    \/ \E i \in 1..Len(a) :
          /\ a[i] > b[i]
          /\ \A k \in (i + 1)..Len(a) : a[k] = b[k]

\* a > b: the comparison a mutant of to_readable uses.
Greater(a, b) == GreaterEq(a, b) /\ a # b

\* n / 1000^j.
Divide(n, j) == [whole |-> SubSeq(n, j + 1, Len(n)), frac |-> SubSeq(n, 1, j)]

\* float.is_integer()
is_integer(x) == \A i \in 1..Len(x.frac) : x.frac[i] = 0

\* to_readable with strict thresholds (num > 1e12, num > 1e9).
to_readable_strict(n, u) ==
    IF u = AUTO
    THEN IF Greater(n, Power(n, 4)) THEN <<TERABYTES, Divide(n, 4)>>
         ELSE IF Greater(n, Power(n, 3)) THEN <<GIGABYTES, Divide(n, 3)>>
         ELSE <<MEGABYTES, Divide(n, 2)>>
    ELSE <<u, Divide(n, CONVERSION_FACTORS[u])>>

\* Lines 97-105.
to_readable(n, u) ==
    IF u = AUTO
    THEN IF GreaterEq(n, Power(n, 4)) THEN <<TERABYTES, Divide(n, 4)>>
         ELSE IF GreaterEq(n, Power(n, 3)) THEN <<GIGABYTES, Divide(n, 3)>>
         ELSE <<MEGABYTES, Divide(n, 2)>>
    ELSE <<u, Divide(n, CONVERSION_FACTORS[u])>>

\* format(value, "," + fmt): Python's own number formatting, kept as a text
\* that names the value and the format it was rendered with.
PyFormat(value, fmt) == "{" \o ToString(value) \o ":," \o fmt \o "}"

\* Lines 110-111 and 113: a whole float becomes an int and is rendered with
\* "d", anything else with ".2f".
RenderNumber(converted_num) ==
    IF is_integer(converted_num)
    THEN PyFormat(converted_num.whole, "d")
    ELSE PyFormat(converted_num, ".2f")

\* Line 112.
units_display(units_used) ==
    IF units_used = NONE THEN <<>> ELSE <<" (", UnitStr(units_used), ")">>

\* format_output_num with the label after the number.
format_output_num_label_last(n, u) ==
    <<": ", RenderNumber(to_readable(n, u)[2])>>
        \o units_display(to_readable(n, u)[1])

\* Lines 108-114: the text f"{units_display}: {converted_num:,{fmt}}", as the
\* sequence of its parts.
format_output_num(n, u) ==
    units_display(to_readable(n, u)[1])
        \o <<": ", RenderNumber(to_readable(n, u)[2])>>

ToReadable ==
    /\ num # <<>>
    /\ readable' = to_readable(num, units)
    /\ UNCHANGED <<num, units, formatted>>
    /\ UNCHANGED statsVars

FormatOutputNum ==
    /\ num # <<>>
    /\ formatted' = format_output_num(num, units)
    /\ UNCHANGED <<num, units, readable>>
    /\ UNCHANGED statsVars

\* The digits the arguments are drawn from, and the numbers: four digits and
\* a signed leading one, which reaches from below -1e12 to above 1e12 and
\* holds 999_999_999, 1e9, 1e12 and 2_000_000.
LowDigits == {0, 1, 2, 999}
HighDigits == {-1, 0, 1}
Numbers ==
    { <<a, b, c, d, e>> : a \in {0, 1, 999}, b \in LowDigits, c \in LowDigits,
                          d \in {0, 1, 999}, e \in HighDigits }

-----------------------------------------------------------------------------
StatsInit(pool, ncalls) ==
    /\ \E layers \in ListsOver(pool), nE \in 0..MaxProfiles :
          /\ summary_list = WithEnergies(layers)
          /\ heap = InitialHeap(Len(layers), nE)
    /\ \E nD \in 0..MaxProfiles : device_profiles = [k \in 1..nD |-> k]
    /\ formatting = "default"
    /\ calls = ncalls
    /\ pc = "idle"
    /\ idx = 0
    /\ snaps = <<>>
    /\ err = "none"
    /\ out = <<>>

UnitsIdle ==
    /\ num = <<>>
    /\ units = AUTO
    /\ readable = <<>>
    /\ formatted = <<>>

Init == StatsInit(LayerPool, 1) /\ UnitsIdle

Next == Construct \/ ForLayer \/ SetLayerNameWidth \/ Repr

Spec == Init /\ [][Next]_vars

-----------------------------------------------------------------------------
(* The helpers alone: the arguments are drawn at the start.                *)
StatsIdle ==
    /\ summary_list = <<>>
    /\ device_profiles = <<>>
    /\ heap = <<>>
    /\ formatting = "default"
    /\ calls = 0
    /\ pc = "idle"
    /\ idx = 0
    /\ snaps = <<>>
    /\ err = "none"
    /\ out = <<>>

InitUnits ==
    /\ StatsIdle
    /\ num \in Numbers
    /\ units \in Units
    /\ readable = <<>>
    /\ formatted = <<>>

NextUnits == ToReadable \/ FormatOutputNum

SpecUnits == InitUnits /\ [][NextUnits]_vars

-----------------------------------------------------------------------------
(* The caller keeps its layer records after the construction and may       *)
(* change them, and may construct again from the same records.             *)

\* layer.total_energy_contributions[i] = 0.0
SetItem ==
    /\ \E k \in 1..Len(summary_list) :
         \E i \in 1..Len(heap[summary_list[k].total_energy_contributions]) :
            /\ heap[summary_list[k].total_energy_contributions][i] # 0
            /\ heap' = [heap EXCEPT
                          ![summary_list[k].total_energy_contributions][i] = 0]
    /\ UNCHANGED <<summary_list, device_profiles, formatting, calls, pc, idx,
                   snaps, err, out>>
    /\ UNCHANGED unitVars

\* layer.total_energy_contributions = [0.0]: the attribute names a new list.
Rebind ==
    /\ Len(heap) < Len(summary_list) + MaxRebinds
    /\ \E k \in 1..Len(summary_list) :
          /\ summary_list' = [summary_list EXCEPT
                                ![k].total_energy_contributions = Len(heap) + 1]
          /\ heap' = Append(heap, <<0>>)
    /\ UNCHANGED <<device_profiles, formatting, calls, pc, idx, snaps, err, out>>
    /\ UNCHANGED unitVars

InitOwn == StatsInit(SmallPool, MaxSnapshots) /\ UnitsIdle

NextOwn == Next \/ SetItem \/ Rebind

SpecOwn == InitOwn /\ [][NextOwn]_vars

-----------------------------------------------------------------------------
(* Properties of the accumulation pass and of the report.                  *)

RECURSIVE SumSeq(_)
SumSeq(q) == IF q = <<>> THEN 0 ELSE q[1] + SumSeq(Tail(q))

NonNegative(x) == IF x > 0 THEN x ELSE 0

\* The record the for loop handled in the step just taken.
Stepped == pc = "loop" /\ pc' = "loop" /\ idx' = idx + 1
Before == snaps[Len(snaps)]
After == snaps'[Len(snaps)]

LeafOnly == \A i \in 1..Len(summary_list) :
                summary_list[i].is_leaf_layer /\ ~summary_list[i].is_recursive

\* C1: for a list of leaf, non-recursive records, a constructed object's
\* total_params is the sum of max(num_params, 0) and its trainable_params the
\* sum of max(trainable_params, 0) over the records.
C1_LeafTotals ==
    \A k \in Built :
        LeafOnly =>
            /\ snaps[k].total_params =
                 SumSeq([i \in 1..Len(summary_list) |->
                            NonNegative(summary_list[i].num_params)])
            /\ snaps[k].trainable_params =
                 SumSeq([i \in 1..Len(summary_list) |->
                            NonNegative(summary_list[i].trainable_params)])

C1_Witness ==
    /\ Built # {}
    /\ LeafOnly
    /\ Len(summary_list) >= 2
    /\ \E i \in 1..Len(summary_list) : summary_list[i].num_params < 0
    /\ \E i \in 1..Len(summary_list) : summary_list[i].num_params > 0

\* C2: a step of the pass over a recursive leaf record adds its macs to
\* total_mult_adds and leaves total_params, trainable_params and
\* total_param_bytes as they were; a constructed object's total_mult_adds is
\* the sum of macs over the leaf records, recursive or not.
C2_RecursiveLeafStep ==
    (Stepped /\ summary_list[idx].is_leaf_layer /\ summary_list[idx].is_recursive)
        => /\ After.total_mult_adds = Before.total_mult_adds + summary_list[idx].macs
           /\ After.total_params = Before.total_params
           /\ After.trainable_params = Before.trainable_params
           /\ After.total_param_bytes = Before.total_param_bytes

C2_MultAddsSum ==
    \A k \in Built :
        snaps[k].total_mult_adds =
            SumSeq([i \in 1..Len(summary_list) |->
                       IF summary_list[i].is_leaf_layer
                       THEN summary_list[i].macs ELSE 0])

C2_RecursiveLeaf == [][C2_RecursiveLeafStep]_vars /\ []C2_MultAddsSum

C2_Witness ==
    /\ Built # {}
    /\ \E i \in 1..Len(summary_list) :
          /\ summary_list[i].is_leaf_layer
          /\ summary_list[i].is_recursive
          /\ summary_list[i].macs > 0
          /\ summary_list[i].num_params > 0
    /\ \E i \in 1..Len(summary_list) :
          ~summary_list[i].is_leaf_layer /\ summary_list[i].macs > 0

\* C3: a step over a container record adds max(leftover_params(), 0) to
\* total_params and max(leftover_trainable_params(), 0) to trainable_params
\* when the record is not recursive and changes neither when it is; no step
\* of the pass decreases total_params or trainable_params, and both are >= 0.
C3_ContainerStep ==
    (Stepped /\ ~summary_list[idx].is_leaf_layer)
        => /\ After.total_params = Before.total_params +
                 (IF summary_list[idx].is_recursive THEN 0
                  ELSE NonNegative(summary_list[idx].leftover))
           /\ After.trainable_params = Before.trainable_params +
                 (IF summary_list[idx].is_recursive THEN 0
                  ELSE NonNegative(summary_list[idx].leftover_trainable))

C3_NoDecrease ==
    Stepped => /\ After.total_params >= Before.total_params
               /\ After.trainable_params >= Before.trainable_params

C3_NonNegative ==
    \A k \in 1..Len(snaps) :
        snaps[k].total_params >= 0 /\ snaps[k].trainable_params >= 0

C3_Leftover ==
    [][C3_ContainerStep /\ C3_NoDecrease]_vars /\ []C3_NonNegative

\* The pass has just handled a non-recursive container whose leftover is -5.
C3_Witness ==
    /\ pc = "loop"
    /\ idx > 1
    /\ ~summary_list[idx - 1].is_leaf_layer
    /\ ~summary_list[idx - 1].is_recursive
    /\ summary_list[idx - 1].leftover = -5

\* C4: a constructed object's total_output_bytes is the sum of
\* 2 * output_bytes over the leaf records with num_params > 0, recursive or
\* not; other records add nothing.
C4_OutputBytes ==
    \A k \in Built :
        snaps[k].total_output_bytes =
            SumSeq([i \in 1..Len(summary_list) |->
                       IF summary_list[i].is_leaf_layer /\ summary_list[i].num_params > 0
                       THEN 2 * summary_list[i].output_bytes ELSE 0])

C4_Witness ==
    /\ Built # {}
    /\ \E i \in 1..Len(summary_list) :
          /\ summary_list[i].is_leaf_layer
          /\ summary_list[i].is_recursive
          /\ summary_list[i].num_params > 0
          /\ summary_list[i].output_bytes > 0
    /\ \E i \in 1..Len(summary_list) :
          /\ summary_list[i].is_leaf_layer
          /\ summary_list[i].num_params = 0
          /\ summary_list[i].output_bytes > 0

\* C5: a constructor call on an empty layer list raises and yields no object:
\* with an empty list there never is a ModelStatistics object, and every call
\* made ends with the error.
C5_EmptyCallRaises ==
    (summary_list = <<>> /\ calls' < calls)
        => err' = "IndexError" /\ snaps' = <<>> /\ pc' = "idle"

C5_EmptyFails ==
    [][C5_EmptyCallRaises]_vars /\ [](summary_list = <<>> => snaps = <<>>)

C5_Witness == summary_list = <<>> /\ err = "IndexError" /\ snaps = <<>>

\* C6 (as claimed): a constructor call with a device-profile list whose length
\* differs from the length of the first record's total_energy_contributions
\* fails, so that no object exists for such an input.
C6_MismatchRejected ==
    (/\ summary_list # <<>>
     /\ Len(device_profiles) #
            Len(heap[summary_list[1].total_energy_contributions]))
        => snaps = <<>>

\* C7 (as claimed): the report of an object built with N device profiles has
\* exactly N energy lines, after the closing divider, the i-th carrying
\* str(device_profiles[i]) and total_energies[i].
C7_EnergyLinePerProfile ==
    out # <<>> =>
        /\ Len(out) = 5 + Len(device_profiles)
        /\ out[5] = [line |-> "divider"]
        /\ \A i \in 1..Len(device_profiles) :
              out[5 + i] = [line |-> "energy",
                            device |-> DeviceStr(device_profiles[i]),
                            value |-> heap[snaps[1].total_energies][i]]

-----------------------------------------------------------------------------
(* Properties of the unit helpers.                                         *)

\* num >= 1e12 and num >= 1e9, read off the digits of num.
AtLeast1e12 == num[5] >= 1
AtLeast1e9 == num[5] >= 1 \/ (num[5] = 0 /\ num[4] >= 1)

\* value is num / 1000^j: j fractional digits, and the digits of num in all.
IsQuotient(value, j) == Len(value.frac) = j /\ value.frac \o value.whole = num

\* The unit to_readable is to resolve, and the power of 1000 it divides by.
ResolvedUnit ==
    IF units # AUTO THEN units
    ELSE IF AtLeast1e12 THEN TERABYTES
    ELSE IF AtLeast1e9 THEN GIGABYTES
    ELSE MEGABYTES

ResolvedPower ==
    IF units # AUTO THEN CONVERSION_FACTORS[units]
    ELSE IF AtLeast1e12 THEN 4
    ELSE IF AtLeast1e9 THEN 3
    ELSE 2

\* C8: with AUTO, to_readable returns TERABYTES and num/1e12 when num >= 1e12,
\* else GIGABYTES and num/1e9 when num >= 1e9, else MEGABYTES and num/1e6
\* (also for small, zero and negative num); with an explicit unit it returns
\* that unit and num divided by the unit's conversion factor.
C8_ToReadable ==
    readable # <<>> =>
        /\ readable[1] = ResolvedUnit
        /\ IsQuotient(readable[2], ResolvedPower)
        /\ units # AUTO => readable[1] = units

\* to_readable(1_000_000_000, AUTO) has returned.
C8_Witness ==
    /\ readable # <<>>
    /\ units = AUTO
    /\ num = <<0, 0, 0, 1, 0>>
    /\ readable[1] = GIGABYTES

\* C9 (as amended): the text is the resolved unit's label in parentheses,
\* after a space, then ": ", then the rendered number; with the unit NONE it
\* is ": " and the number alone.
C9_LabelThenColon ==
    formatted # <<>> =>
        formatted =
            (IF ResolvedUnit = NONE THEN <<>>
             ELSE <<" (", UnitStr(ResolvedUnit), ")">>)
            \o <<": ", RenderNumber(Divide(num, ResolvedPower))>>

\* format_output_num(2_000_000, GIGABYTES) has returned: 0.002, labelled.
C9_Witness ==
    /\ formatted # <<>>
    /\ units = GIGABYTES
    /\ num = <<0, 0, 2, 0, 0>>
    /\ Len(formatted) = 5
    /\ formatted[2] = "GIGABYTES"

\* C9 (as claimed): the text begins with ": ", then the rendered number, then
\* the resolved unit's label in parentheses, which is left out for NONE.
C9_ColonThenLabel ==
    formatted # <<>> =>
        formatted =
            <<": ", RenderNumber(Divide(num, ResolvedPower))>>
            \o (IF ResolvedUnit = NONE THEN <<>>
                ELSE <<" (", UnitStr(ResolvedUnit), ")">>)

-----------------------------------------------------------------------------
(* Ownership of the totals.                                                *)

\* The totals of object k as a reader sees them: total_energies is the
\* list the field refers to.
TotalsIn(objects, lists, k) ==
    [objects[k] EXCEPT !.total_energies = lists[objects[k].total_energies]]

\* A constructor call takes total_energies from the first record.
C10_SeededStep ==
    (pc = "idle" /\ pc' = "loop")
        => TotalsIn(snaps', heap', Len(snaps')).total_energies =
               heap[summary_list[1].total_energy_contributions]

\* No step changes the totals of an object already constructed.
C10_FrameStep ==
    \A k \in Built :
        k \in Built' /\ TotalsIn(snaps', heap', k) = TotalsIn(snaps, heap, k)

\* C10 (as claimed): total_energies is taken from the first record's
\* total_energy_contributions at construction, and afterwards neither a
\* change to the records' total_energy_contributions, nor another
\* construction from the same records, nor rendering the report changes any
\* total of the object.
C10_SnapshotOwnsTotals == [][C10_SeededStep /\ C10_FrameStep]_vars

=============================================================================
